---- MODULE Spec2Model ----
(***************************************************************************)
(* State-machine model of WebSocketManager                                 *)
(* (ai-novel-writer-frontend/src/lib/websocket-manager.ts).                *)
(*                                                                         *)
(* The manager is a singleton driven from one event loop: every public     *)
(* method and every socket or timer callback runs to completion, so each   *)
(* is one action.  The browser delivers a failed connection as one task    *)
(* that fires `error` and then `close` on the same socket; the task is     *)
(* split in two actions (SocketError, SocketErrorClose) joined by `task`,  *)
(* so that the state between the two callbacks is visible, and nothing     *)
(* else runs between them.                                                 *)
(*                                                                         *)
(* connect() overwrites this.ws and disconnect() nulls it, but neither     *)
(* removes the onopen/onclose/onerror/onmessage callbacks of the socket    *)
(* it lets go of.  Such sockets stay alive in the browser and are kept     *)
(* here in `detached`, counted per kind (their identity is never used by   *)
(* the code): superseded by a later connect(), or released by              *)
(* disconnect().                                                           *)
(***************************************************************************)
EXTENDS Integers, Sequences, FiniteSets, TLC

\* ---------------------------------------------------------------- bounds
\* Most sockets that are alive but no longer held in this.ws.
MaxDetached == 2
\* Most pending setTimeout callbacks no longer referenced by reconnectTimer.
MaxLeakedTimers == 1
\* Most calls of on() in one behaviour.
MaxSubscriptions == 2
\* Most tasks in the currentTasks of a processing-status snapshot.
MaxTasks == 2
\* Latest reading of the wall clock.
MaxClock == 2

\* ------------------------------------------------------------- constants
\* DEFAULT_CONFIG.maxReconnectAttempts
maxReconnectAttempts == 5
\* DEFAULT_CONFIG.reconnectInterval, in milliseconds
reconnectInterval == 3000
\* The normal-closure code tested by onclose and sent by disconnect().
NormalClosure == 1000

\* enum ConnectionState
CONNECTING == "connecting"
CONNECTED == "connected"
DISCONNECTED == "disconnected"
RECONNECTING == "reconnecting"
ERROR == "error"
ConnectionState == {CONNECTING, CONNECTED, DISCONNECTED, RECONNECTING, ERROR}

\* WebSocket.readyState of the socket held in this.ws ("null": this.ws is null).
\* A socket on which close() was called is always let go of in the same call,
\* so the held socket is never CLOSING.
RS_NULL == "null"
RS_CONNECTING == "CONNECTING"
RS_OPEN == "OPEN"
RS_CLOSED == "CLOSED"
ReadyStates == {RS_NULL, RS_CONNECTING, RS_OPEN, RS_CLOSED}

\* Close codes a close event can carry: normal closure, going away, and the
\* code of a connection that ended without a close frame.
CloseCodes == {NormalClosure, 1001, 1006}

\* Values of the authToken argument of connect(); "" stands for a call
\* without one (undefined and '' are both falsy in `if (authToken)`).
Tokens == {"", "t1", "t2"}

\* Values of the type argument of send() in application calls.
MessageTypes == {"message"}

\* The functions registered with onConnectionStateChange; the second one
\* throws whenever it is called.
Listeners == {"l1", "l2"}
ThrowingListeners == {"l2"}

\* Event types that on() is called with: two keys of WebSocketEvents, and
\* the reserved type of the heartbeat reply.
EventTypes == {"processing-status", "task-update"}
SubscribedTypes == EventTypes \cup {"pong"}

\* The functions registered with on(); the second one throws whenever it is
\* called.
Handlers == {"h1", "h2"}
ThrowingHandlers == {"h2"}

\* event.data of an inbound message: text that is not JSON, the JSON text
\* null, a JSON object without a type, or an envelope with a type.
NotEnvelopes == {"garbage", "null", "notype"}
Inbound ==
  [kind : NotEnvelopes, type : {"undefined"}]
    \cup [kind : {"envelope"}, type : SubscribedTypes]
NoMessage == [kind |-> "none", type |-> "undefined"]

\* useState<Date | null>(null): the value standing for null; readings of the
\* clock are greater.
NoDate == 0

\* useState<ProcessingStatus | null>(null): the value standing for null.
NullStatus == [null |-> TRUE]

\* Task, by the two fields the provider and its consumers tell tasks apart by.
TaskIds == {"a", "b"}
Tasks == [id : TaskIds, progress : {10, 50}]

TaskLists == UNION {[1..n -> Tasks] : n \in 0..MaxTasks}

\* ProcessingStatus payloads of processing-status events.
Snapshots ==
  [activeAgents : {<< >>, <<"agent">>}, currentTasks : TaskLists,
   queueLength : {0, 2}, estimatedCompletion : {NoDate, MaxClock}]

NoPayload == [none |-> TRUE]

VARIABLES
  connectionState,  \* this.connectionState
  ws,               \* readyState of this.ws, or "null"
  reconnectAttempts,\* this.reconnectAttempts
  reconnectTimer,   \* this.reconnectTimer: "null", "pending" or "fired" (a stale handle)
  heartbeatTimer,   \* this.heartbeatTimer: "null" or "active"
  intervals,        \* setInterval timers that were set and not cleared
  authToken,        \* this.config.authToken
  urlOk,            \* whether new WebSocket(config.url...) succeeds; fixed by config.url
  detached,         \* live sockets not held in this.ws, callbacks still attached
  leakedTimers,     \* pending reconnect timeouts no longer referenced by reconnectTimer
  task,             \* "idle", or whose close event is due right after its error event
  connectionStateHandlers, \* this.connectionStateHandlers, in insertion order
  processingStatus, \* WebSocketProvider: the processingStatus state
  lastActivity,     \* WebSocketProvider: the lastActivity state
  clock,            \* what new Date() reads
  eventHandlers,    \* this.eventHandlers: event type -> handlers in insertion order
  subs,             \* history: the calls of on(), and whether their unsubscribe was called
  heard,            \* history: the last state each listener was called with
  last,             \* history: the last operation run, and what it notified
  scenario,         \* history: progress through connect, open, lost, retry
  scheduled,        \* history: reconnects scheduled since the last open or disconnect()
  abnormalCloses,   \* history: abnormal closes since the last open or disconnect()
  exhausted,        \* history: the policy stopped, and no connect()/disconnect() since
  quiesced          \* history: disconnect() returned, and no explicit connect() since

vars == <<connectionState, ws, reconnectAttempts, reconnectTimer, heartbeatTimer,
          intervals, authToken, urlOk, detached, leakedTimers, task,
          connectionStateHandlers, processingStatus, lastActivity, clock,
          eventHandlers, subs, heard, last, scenario, scheduled,
          abnormalCloses, exhausted, quiesced>>

\* A JavaScript Set as the sequence of its members in insertion order.
Has(set, x) == \E i \in 1..Len(set) : set[i] = x

\* A variant of Set.add that keeps a member as often as it was added.
Add_keepsEvery(set, x) == Append(set, x)

Add(set, x) == IF Has(set, x) THEN set ELSE Append(set, x)
Delete(set, x) == SelectSeq(set, LAMBDA y : y # x)

\* A JavaScript Map as a function on the keys it has.
MapHas(map, k) == k \in DOMAIN map
MapSet(map, k, v) == [x \in DOMAIN map \cup {k} |-> IF x = k THEN v ELSE map[x]]
MapDelete(map, k) == [x \in DOMAIN map \ {k} |-> map[x]]
EmptyMap == [x \in {} |-> << >>]

NothingDelivered == [l \in Listeners |-> << >>]

NoDetached == [supConnecting |-> 0, supOpen |-> 0, relConnecting |-> 0, relOpen |-> 0]

\* The manager's fields as one record, at the start of an operation.
Now ==
  [connectionState |-> connectionState, ws |-> ws,
   reconnectAttempts |-> reconnectAttempts, reconnectTimer |-> reconnectTimer,
   heartbeatTimer |-> heartbeatTimer, intervals |-> intervals,
   authToken |-> authToken,
   detached |-> detached, leakedTimers |-> leakedTimers,
   scheduled |-> scheduled, abnormalCloses |-> abnormalCloses,
   exhausted |-> exhausted,
   connectionStateHandlers |-> connectionStateHandlers, heard |-> heard,
   eventHandlers |-> eventHandlers, subs |-> subs,
   processingStatus |-> processingStatus, lastActivity |-> lastActivity,
   clock |-> clock, payload |-> NoPayload, delay |-> 0,
   notified |-> << >>, delivered |-> NothingDelivered, written |-> << >>,
   msg |-> NoMessage, invoked |-> << >>, thrown |-> FALSE]

\* ------------------------------------------------------- private methods

\* The handlers that forEach reaches when a throw is not caught: those up to
\* and including the first one that throws.
UpToFirstThrow(set) ==
  LET throwsAt == {i \in 1..Len(set) :
                      set[i] \in ThrowingListeners \cup ThrowingHandlers}
  IN  IF throwsAt = {} THEN set
      ELSE SubSeq(set, 1, CHOOSE i \in throwsAt : \A j \in throwsAt : i <= j)

\* A variant of setConnectionState without the try/catch around handler(state).
setConnectionState_noCatch(m, state) ==
  IF m.connectionState # state
    THEN LET called == UpToFirstThrow(m.connectionStateHandlers)
         IN  [m EXCEPT !.connectionState = state,
                       !.notified = Append(@, state),
                       !.delivered = [l \in Listeners |->
                                        IF Has(called, l) THEN Append(@[l], state)
                                        ELSE @[l]],
                       !.heard = [l \in Listeners |->
                                    IF Has(called, l) THEN state ELSE @[l]]]
    ELSE m

\* setConnectionState: assigns and, only on a change, calls every registered
\* handler once with the new state; a handler that throws is caught.
setConnectionState(m, state) ==
  IF m.connectionState # state
    THEN [m EXCEPT !.connectionState = state,
                   !.notified = Append(@, state),
                   !.delivered = [l \in Listeners |->
                                    IF Has(m.connectionStateHandlers, l)
                                      THEN Append(@[l], state) ELSE @[l]],
                   !.heard = [l \in Listeners |->
                                IF Has(m.connectionStateHandlers, l)
                                  THEN state ELSE @[l]]]
    ELSE m

\* clearReconnectTimer: clearTimeout on the referenced handle (a no-op for a
\* fired one), and forgets the handle.
clearReconnectTimer(m) ==
  IF m.reconnectTimer # "null" THEN [m EXCEPT !.reconnectTimer = "null"] ELSE m

\* clearHeartbeatTimer: clearInterval on the referenced timer.
clearHeartbeatTimer(m) ==
  IF m.heartbeatTimer # "null"
    THEN [m EXCEPT !.heartbeatTimer = "null", !.intervals = @ - 1]
    ELSE m

\* A variant of startHeartbeat without the clearHeartbeatTimer() call.
startHeartbeat_noClear(m) ==
  [m EXCEPT !.heartbeatTimer = "active", !.intervals = @ + 1]

\* startHeartbeat: clears the referenced timer, then sets a new one.
startHeartbeat(m) ==
  [clearHeartbeatTimer(m) EXCEPT !.heartbeatTimer = "active", !.intervals = @ + 1]

Min(a, b) == IF a < b THEN a ELSE b

\* A variant of the delay that shrinks from attempt to attempt.
BackoffDelay_shrinking(interval, attempt) ==
  interval * (maxReconnectAttempts + 1 - attempt)

\* The delay passed to setTimeout: config.reconnectInterval * reconnectAttempts.
BackoffDelay(interval, attempt) == interval * attempt

\* A variant of scheduleReconnect that tests > instead of >=.
scheduleReconnect_offByOne(m) ==
  IF m.reconnectAttempts > maxReconnectAttempts
    THEN [setConnectionState(m, ERROR) EXCEPT !.exhausted = TRUE]
    ELSE LET m1 == [m EXCEPT !.reconnectAttempts = @ + 1, !.scheduled = @ + 1]
             m2 == setConnectionState(m1, RECONNECTING)
         IN  [m2 EXCEPT !.reconnectTimer = "pending",
                        !.leakedTimers =
                           IF m.reconnectTimer = "pending" THEN @ + 1 ELSE @]

\* A variant of scheduleReconnect that stops one attempt early.
scheduleReconnect_stopsEarly(m) ==
  IF m.reconnectAttempts >= maxReconnectAttempts - 1
    THEN [setConnectionState(m, ERROR) EXCEPT !.exhausted = TRUE]
    ELSE LET m1 == [m EXCEPT !.reconnectAttempts = @ + 1, !.scheduled = @ + 1]
             m2 == setConnectionState(m1, RECONNECTING)
         IN  [m2 EXCEPT !.reconnectTimer = "pending",
                        !.leakedTimers =
                           IF m.reconnectTimer = "pending" THEN @ + 1 ELSE @]

\* scheduleReconnect: stops when the attempts are used up; otherwise counts
\* the attempt and sets a new timeout.  The handle of a timeout that is still
\* pending is overwritten without clearTimeout: that timeout stays pending.
scheduleReconnect(m) ==
  IF m.reconnectAttempts >= maxReconnectAttempts
    THEN [setConnectionState(m, ERROR) EXCEPT !.exhausted = TRUE]
    ELSE LET m1 == [m EXCEPT !.reconnectAttempts = @ + 1, !.scheduled = @ + 1]
             m2 == setConnectionState(m1, RECONNECTING)
         IN  [m2 EXCEPT !.reconnectTimer = "pending",
                        !.delay = BackoffDelay(reconnectInterval, m1.reconnectAttempts),
                        !.leakedTimers =
                           IF m.reconnectTimer = "pending" THEN @ + 1 ELSE @]

\* ------------------------------------------------------ socket callbacks

\* ws.onopen
onopen(m) ==
  startHeartbeat([setConnectionState(m, CONNECTED) EXCEPT
                    !.reconnectAttempts = 0, !.scheduled = 0, !.abnormalCloses = 0])

\* A variant of onclose that evaluates the policy before it reports the
\* disconnection.
onclose_policyFirst(m, code) ==
  LET m1 == clearHeartbeatTimer(m)
  IN  IF code # NormalClosure
        THEN setConnectionState(
               scheduleReconnect(
                 [m1 EXCEPT !.abnormalCloses = Min(@ + 1, maxReconnectAttempts + 1)]),
               DISCONNECTED)
        ELSE setConnectionState(m1, DISCONNECTED)

\* A variant of onclose that takes every close for an abnormal one.
onclose_alwaysRetries(m, code) ==
  LET m1 == clearHeartbeatTimer(m)
      m2 == setConnectionState(m1, DISCONNECTED)
  IN  scheduleReconnect(
        [m2 EXCEPT !.abnormalCloses = Min(@ + 1, maxReconnectAttempts + 1)])

\* ws.onclose
onclose(m, code) ==
  LET m1 == clearHeartbeatTimer(m)
      m2 == setConnectionState(m1, DISCONNECTED)
  IN  IF code # NormalClosure
        THEN scheduleReconnect(
               [m2 EXCEPT !.abnormalCloses = Min(@ + 1, maxReconnectAttempts + 1)])
        ELSE m2

\* A variant of handleMessage without the test for pong.
handleMessage_noPongFilter(m, message) ==
  IF message.kind = "null"
    THEN [m EXCEPT !.thrown = TRUE]
    ELSE IF MapHas(m.eventHandlers, message.type)
           THEN [m EXCEPT !.invoked = @ \o m.eventHandlers[message.type]]
           ELSE m

\* A variant of handleMessage without the try/catch around handler(data).
handleMessage_noCatch(m, message) ==
  IF message.kind = "null"
    THEN [m EXCEPT !.thrown = TRUE]
    ELSE IF message.type = "pong"
           THEN m
           ELSE IF MapHas(m.eventHandlers, message.type)
                  THEN LET handlers == m.eventHandlers[message.type]
                           called == UpToFirstThrow(handlers)
                       IN  [m EXCEPT !.invoked = @ \o called,
                                     !.thrown = called # handlers
                                                  \/ called[Len(called)] \in ThrowingHandlers]
                  ELSE m

\* A variant of handleMessage that makes an empty set for a type without one.
handleMessage_createsKey(m, message) ==
  IF message.kind = "null"
    THEN [m EXCEPT !.thrown = TRUE]
    ELSE IF message.type = "pong"
           THEN m
           ELSE IF MapHas(m.eventHandlers, message.type)
                  THEN [m EXCEPT !.invoked = @ \o m.eventHandlers[message.type]]
                  ELSE [m EXCEPT !.eventHandlers = MapSet(@, message.type, << >>)]

\* handleMessage: destructuring null throws; a message without a type has
\* type undefined, which is no key of the map; pong is consumed; otherwise
\* every handler of the type is called, in insertion order, each inside its
\* own try/catch.  `thrown` is an exception on its way out.
handleMessage(m, message) ==
  IF message.kind = "null"
    THEN [m EXCEPT !.thrown = TRUE]
    ELSE IF message.type = "pong"
           THEN m
           ELSE IF MapHas(m.eventHandlers, message.type)
                  THEN [m EXCEPT !.invoked = @ \o m.eventHandlers[message.type]]
                  ELSE m

\* JSON.parse(event.data): throws for text that is not JSON, and gives the
\* value otherwise.
JSONparse(data) ==
  IF data.kind = "garbage" THEN [threw |-> TRUE, value |-> NoMessage]
  ELSE [threw |-> FALSE, value |-> data]

\* A variant of onmessage without its try/catch.
onmessage_noCatch(m, data) ==
  LET parsed == JSONparse(data)
  IN  IF parsed.threw
        THEN [m EXCEPT !.thrown = TRUE]
        ELSE handleMessage(m, parsed.value)

\* ws.onmessage: whatever JSON.parse or handleMessage throws is caught.
onmessage(m, data) ==
  LET parsed == JSONparse(data)
  IN  IF parsed.threw
        THEN m
        ELSE [handleMessage(m, parsed.value) EXCEPT !.thrown = FALSE]

\* A variant of onerror that does what a close with a non-normal code does.
onerror_asClose(m) ==
  scheduleReconnect(setConnectionState(m, DISCONNECTED))

\* ws.onerror
onerror(m) == setConnectionState(m, ERROR)

\* ----------------------------------------------------- WebSocketProvider

\* A variant of the processing-status handler that keeps the tasks it had.
onProcessingStatus_keepsTasks(m, status, t) ==
  [m EXCEPT !.processingStatus =
               IF @ = NullStatus THEN status
               ELSE [status EXCEPT !.currentTasks = m.processingStatus.currentTasks \o @],
            !.lastActivity = t]

\* The handler the provider registers for processing-status, called at time t.
onProcessingStatus(m, status, t) ==
  [m EXCEPT !.processingStatus = status, !.lastActivity = t]

\* A variant of the merge that appends whether or not the id is present.
MergeTask_alwaysAppends(tasks, update) == Append(tasks, update)

\* prev.currentTasks.map(...), then push when find(...) finds nothing.
MergeTask(tasks, update) ==
  LET updatedTasks == [i \in 1..Len(tasks) |->
                         IF tasks[i].id = update.id THEN update ELSE tasks[i]]
  IN  IF ~ \E i \in 1..Len(updatedTasks) : updatedTasks[i].id = update.id
        THEN Append(updatedTasks, update)
        ELSE updatedTasks

\* A variant of the task-update handler that makes a status of the task when
\* there is none.
onTaskUpdate_synthesizes(m, update, t) ==
  [m EXCEPT !.processingStatus =
               IF @ = NullStatus
                 THEN [activeAgents |-> << >>, currentTasks |-> <<update>>,
                       queueLength |-> 0, estimatedCompletion |-> NoDate]
                 ELSE [@ EXCEPT !.currentTasks = MergeTask(@, update)],
            !.lastActivity = t]

\* The handler the provider registers for task-update, called at time t.
onTaskUpdate(m, update, t) ==
  [m EXCEPT !.processingStatus =
               IF @ = NullStatus THEN @
               ELSE [@ EXCEPT !.currentTasks = MergeTask(@, update)],
            !.lastActivity = t]

\* -------------------------------------------------------- public methods

\* on(eventType, handler): adds the handler to the set of the event type.
on(m, eventType, handler) ==
  LET map == IF MapHas(m.eventHandlers, eventType)
               THEN m.eventHandlers
               ELSE MapSet(m.eventHandlers, eventType, << >>)
  IN  [m EXCEPT !.eventHandlers = MapSet(map, eventType, Add(map[eventType], handler)),
                !.subs = Append(@, [type |-> eventType, handler |-> handler,
                                    called |-> FALSE])]

\* The unsubscribe function returned by on(eventType, handler).
unsubscribe(m, eventType, handler) ==
  IF MapHas(m.eventHandlers, eventType)
    THEN LET handlers == Delete(m.eventHandlers[eventType], handler)
         IN  [m EXCEPT !.eventHandlers =
                          IF Len(handlers) = 0
                            THEN MapDelete(@, eventType)
                            ELSE MapSet(@, eventType, handlers)]
    ELSE m

\* send(type, data?): writes to the held socket when its readyState is OPEN,
\* and otherwise only warns.  `written` is what this operation wrote.
send(m, type) ==
  IF m.ws = RS_OPEN THEN [m EXCEPT !.written = Append(@, type)] ELSE m

\* A variant of connect that starts the attempt counter afresh.
connect_resetsAttempts(m, token) ==
  IF m.ws = RS_OPEN
    THEN m
    ELSE LET m1 == IF token # "" THEN [m EXCEPT !.authToken = token] ELSE m
             m2 == clearReconnectTimer(setConnectionState(m1, CONNECTING))
             m3 == [m2 EXCEPT !.reconnectAttempts = 0]
         IN  IF urlOk
               THEN [m3 EXCEPT !.ws = RS_CONNECTING,
                               !.detached.supConnecting =
                                  IF m.ws = RS_CONNECTING THEN @ + 1 ELSE @]
               ELSE scheduleReconnect(setConnectionState(m3, ERROR))

\* A variant of connect that gives up when new WebSocket throws.
connect_noRetryOnThrow(m, token) ==
  IF m.ws = RS_OPEN
    THEN m
    ELSE LET m1 == IF token # "" THEN [m EXCEPT !.authToken = token] ELSE m
             m2 == clearReconnectTimer(setConnectionState(m1, CONNECTING))
         IN  IF urlOk
               THEN [m2 EXCEPT !.ws = RS_CONNECTING,
                               !.detached.supConnecting =
                                  IF m.ws = RS_CONNECTING THEN @ + 1 ELSE @]
               ELSE setConnectionState(m2, ERROR)

\* connect(authToken?): returns early only when the held socket is OPEN.
\* Otherwise a new socket replaces this.ws; a replaced socket that is still
\* CONNECTING keeps its callbacks and is not closed.
connect(m, token) ==
  IF m.ws = RS_OPEN
    THEN m
    ELSE LET m1 == IF token # "" THEN [m EXCEPT !.authToken = token] ELSE m
             m2 == clearReconnectTimer(setConnectionState(m1, CONNECTING))
         IN  IF urlOk
               THEN [m2 EXCEPT !.ws = RS_CONNECTING,
                               !.detached.supConnecting =
                                  IF m.ws = RS_CONNECTING THEN @ + 1 ELSE @]
               ELSE scheduleReconnect(setConnectionState(m2, ERROR))

\* disconnect(): close(1000) on the held socket puts it in CLOSING; its
\* close event comes later, to callbacks that are still attached.
disconnect(m) ==
  LET m1 == clearHeartbeatTimer(clearReconnectTimer(m))
      m2 == IF m1.ws # RS_NULL
              THEN [m1 EXCEPT !.ws = RS_NULL,
                              !.detached.relConnecting =
                                 IF m1.ws = RS_CONNECTING THEN @ + 1 ELSE @,
                              !.detached.relOpen =
                                 IF m1.ws = RS_OPEN THEN @ + 1 ELSE @]
              ELSE m1
      m3 == setConnectionState(m2, DISCONNECTED)
  IN  [m3 EXCEPT !.reconnectAttempts = 0, !.scheduled = 0, !.abnormalCloses = 0]

\* ------------------------------------------------------------- the model

DetachedCount(d) == d.supConnecting + d.supOpen + d.relConnecting + d.relOpen

WithinBounds(m) ==
  /\ DetachedCount(m.detached) <= MaxDetached
  /\ m.leakedTimers <= MaxLeakedTimers

Commit(m) ==
  /\ connectionState' = m.connectionState
  /\ ws' = m.ws
  /\ reconnectAttempts' = m.reconnectAttempts
  /\ reconnectTimer' = m.reconnectTimer
  /\ heartbeatTimer' = m.heartbeatTimer
  /\ intervals' = m.intervals
  /\ authToken' = m.authToken
  /\ detached' = m.detached
  /\ leakedTimers' = m.leakedTimers
  /\ scheduled' = m.scheduled
  /\ abnormalCloses' = m.abnormalCloses
  /\ exhausted' = m.exhausted
  /\ connectionStateHandlers' = m.connectionStateHandlers
  /\ eventHandlers' = m.eventHandlers
  /\ processingStatus' = m.processingStatus
  /\ lastActivity' = m.lastActivity
  /\ clock' = m.clock
  /\ subs' = m.subs
  /\ heard' = m.heard
  /\ urlOk' = urlOk

NoScenario == [step |-> 0, observed |-> << >>]

\* The scenario (steps 1 to 4): connect() called in state Disconnected, then
\* the open of the held socket, then its close with code 1006, then the
\* reconnect timeout, with nothing else in between.  `observed` is what the
\* listeners were notified of so far.  A second scenario (steps 5 to 7):
\* connect() called in state Error after the policy stopped, then the error
\* event of the new socket, then its close event.
ScenarioAfter(op, cls, code, m) ==
  CASE op = "connect" /\ connectionState = DISCONNECTED ->
         [step |-> 1, observed |-> m.notified]
    [] op = "onopen" /\ cls = "ws" /\ scenario.step = 1 ->
         [step |-> 2, observed |-> scenario.observed \o m.notified]
    [] op = "onclose" /\ cls = "ws" /\ code = 1006 /\ scenario.step = 2 ->
         [step |-> 3, observed |-> scenario.observed \o m.notified]
    [] op = "timer" /\ cls = "current" /\ scenario.step = 3 ->
         [step |-> 4, observed |-> scenario.observed \o m.notified]
    [] op = "connect" /\ connectionState = ERROR /\ exhausted ->
         [step |-> 5, observed |-> m.notified]
    [] op = "onerror" /\ cls = "ws" /\ scenario.step = 5 ->
         [step |-> 6, observed |-> scenario.observed \o m.notified]
    [] op = "onclose" /\ cls = "ws" /\ code # NormalClosure /\ scenario.step = 6 ->
         [step |-> 7, observed |-> scenario.observed \o m.notified]
    [] OTHER -> NoScenario

\* What became of the message of an operation: a handler threw while it was
\* dispatched, or it was no envelope and was dropped.
Outcome(l) ==
  IF \E i \in 1..Len(l.invoked) : l.invoked[i] \in ThrowingHandlers THEN "threw"
  ELSE IF l.msg.kind \in NotEnvelopes THEN "dropped"
  ELSE "none"

Record(op, cls, code, m) ==
  /\ last' = [op |-> op, cls |-> cls, code |-> code, pre |-> connectionState,
              preAttempts |-> reconnectAttempts, notified |-> m.notified,
              delivered |-> m.delivered, written |-> m.written,
              msg |-> m.msg, invoked |-> m.invoked, escaped |-> m.thrown,
              before |-> Outcome(last), payload |-> m.payload,
              delay |-> m.delay]
  /\ scenario' = ScenarioAfter(op, cls, code, m)

Init ==
  /\ connectionState = DISCONNECTED
  /\ ws = RS_NULL
  /\ reconnectAttempts = 0
  /\ reconnectTimer = "null"
  /\ heartbeatTimer = "null"
  /\ intervals = 0
  /\ authToken = ""
  /\ urlOk \in BOOLEAN
  /\ detached = NoDetached
  /\ leakedTimers = 0
  /\ task = "idle"
  /\ connectionStateHandlers = << >>
  /\ eventHandlers = EmptyMap
  /\ processingStatus = NullStatus
  /\ lastActivity = NoDate
  /\ clock = 1
  /\ subs = << >>
  /\ heard = [l \in Listeners |-> "none"]
  /\ last = [op |-> "init", cls |-> "none", code |-> 0, pre |-> DISCONNECTED,
             preAttempts |-> 0, notified |-> << >>,
             delivered |-> NothingDelivered, written |-> << >>,
             msg |-> NoMessage, invoked |-> << >>, escaped |-> FALSE,
             before |-> "none", payload |-> NoPayload, delay |-> 0]
  /\ scenario = NoScenario
  /\ scheduled = 0
  /\ abnormalCloses = 0
  /\ exhausted = FALSE
  /\ quiesced = FALSE

\* An explicit connect(token) call by the application.
Connect(token) ==
  /\ task = "idle"
  /\ LET m == connect([Now EXCEPT !.exhausted = FALSE], token)
     IN  /\ WithinBounds(m)
         /\ Commit(m)
         /\ Record("connect", "none", 0, m)
  /\ quiesced' = FALSE
  /\ task' = task

\* An explicit disconnect() call by the application.
Disconnect ==
  /\ task = "idle"
  /\ LET m == disconnect([Now EXCEPT !.exhausted = FALSE])
     IN  /\ WithinBounds(m)
         /\ Commit(m)
         /\ Record("disconnect", "none", 0, m)
  /\ quiesced' = TRUE
  /\ task' = task

\* The timeout set by scheduleReconnect fires: this.connect().
ReconnectTimerFires ==
  /\ task = "idle"
  /\ reconnectTimer = "pending"
  /\ LET m == connect([Now EXCEPT !.reconnectTimer = "fired"], "")
     IN  /\ WithinBounds(m)
         /\ Commit(m)
         /\ Record("timer", "current", 0, m)
  /\ UNCHANGED <<quiesced, task>>

\* A timeout whose handle was overwritten fires: this.connect().
LeakedTimerFires ==
  /\ task = "idle"
  /\ leakedTimers > 0
  /\ LET m == connect([Now EXCEPT !.leakedTimers = @ - 1], "")
     IN  /\ WithinBounds(m)
         /\ Commit(m)
         /\ Record("timer", "leaked", 0, m)
  /\ UNCHANGED <<quiesced, task>>

\* The setInterval callback of startHeartbeat: this.send('ping') when the
\* held socket is OPEN.
HeartbeatTick ==
  /\ task = "idle"
  /\ intervals > 0
  /\ LET m == IF ws = RS_OPEN THEN send(Now, "ping") ELSE Now
     IN  /\ Commit(m)
         /\ Record(IF m.written # << >> THEN "ping" ELSE "tick", "none", 0, m)
  /\ UNCHANGED <<quiesced, task>>

\* A send(type) call by the application.
Send(type) ==
  /\ task = "idle"
  /\ LET m == send(Now, type)
     IN  Commit(m) /\ Record("send", "none", 0, m)
  /\ UNCHANGED <<quiesced, task>>

\* The held socket opens.
WsOpen ==
  /\ task = "idle"
  /\ ws = RS_CONNECTING
  /\ LET m == onopen([Now EXCEPT !.ws = RS_OPEN])
     IN  Commit(m) /\ Record("onopen", "ws", 0, m)
  /\ UNCHANGED <<quiesced, task>>

\* A superseded socket opens.
SupersededOpen ==
  /\ task = "idle"
  /\ detached.supConnecting > 0
  /\ LET m == onopen([Now EXCEPT !.detached.supConnecting = @ - 1,
                                 !.detached.supOpen = @ + 1])
     IN  Commit(m) /\ Record("onopen", "superseded", 0, m)
  /\ UNCHANGED <<quiesced, task>>

\* The sockets that are alive, by kind.
HasSocket(cls) ==
  CASE cls = "ws" -> ws \in {RS_CONNECTING, RS_OPEN}
    [] cls = "supConnecting" -> detached.supConnecting > 0
    [] cls = "supOpen" -> detached.supOpen > 0
    [] cls = "relConnecting" -> detached.relConnecting > 0
    [] cls = "relOpen" -> detached.relOpen > 0

SocketKinds == {"ws", "supConnecting", "supOpen", "relConnecting", "relOpen"}

\* Kinds whose connection was established, so that a close frame can arrive.
Established(cls) ==
  \/ cls = "ws" /\ ws = RS_OPEN
  \/ cls \in {"supOpen", "relOpen"}

Origin(cls) ==
  CASE cls = "ws" -> "ws"
    [] cls \in {"supConnecting", "supOpen"} -> "superseded"
    [] cls \in {"relConnecting", "relOpen"} -> "released"

\* The socket of kind cls reaches readyState CLOSED.
Closed(m, cls) ==
  CASE cls = "ws" -> [m EXCEPT !.ws = RS_CLOSED]
    [] cls = "supConnecting" -> [m EXCEPT !.detached.supConnecting = @ - 1]
    [] cls = "supOpen" -> [m EXCEPT !.detached.supOpen = @ - 1]
    [] cls = "relConnecting" -> [m EXCEPT !.detached.relConnecting = @ - 1]
    [] cls = "relOpen" -> [m EXCEPT !.detached.relOpen = @ - 1]

\* A connection ends with a close event alone (a close frame, or a lost
\* connection), carrying any code.
SocketClose(cls, code) ==
  /\ task = "idle"
  /\ HasSocket(cls)
  /\ Established(cls)
  /\ LET m == onclose(Closed(Now, cls), code)
     IN  /\ WithinBounds(m)
         /\ Commit(m)
         /\ Record("onclose", Origin(cls), code, m)
  /\ UNCHANGED <<quiesced, task>>

\* A connection fails (also: close() was called on it while CONNECTING):
\* the socket is CLOSED, and its error event is delivered first.
SocketError(cls) ==
  /\ task = "idle"
  /\ HasSocket(cls)
  /\ LET m == onerror(Closed(Now, cls))
     IN  /\ WithinBounds(onclose(m, 1006))
         /\ Commit(m)
         /\ Record("onerror", Origin(cls), 0, m)
  /\ task' = Origin(cls)
  /\ UNCHANGED quiesced

\* ... and its close event follows in the same task, with code 1006.
SocketErrorClose ==
  /\ task # "idle"
  /\ LET m == onclose(Now, 1006)
     IN  /\ Commit(m)
         /\ Record("onclose", task, 1006, m)
  /\ task' = "idle"
  /\ UNCHANGED quiesced

\* onConnectionStateChange(handler).  What the handler heard under an
\* earlier registration is forgotten.
OnConnectionStateChange(l) ==
  /\ task = "idle"
  /\ LET m == [Now EXCEPT !.connectionStateHandlers = Add(@, l),
                          !.heard[l] = IF Has(connectionStateHandlers, l)
                                         THEN @ ELSE "none"]
     IN  Commit(m) /\ Record("listen", l, 0, m)
  /\ UNCHANGED <<quiesced, task>>

\* The unsubscribe function returned by onConnectionStateChange(handler).
OffConnectionStateChange(l) ==
  /\ task = "idle"
  /\ LET m == [Now EXCEPT !.connectionStateHandlers = Delete(@, l),
                          !.heard[l] = "none"]
     IN  Commit(m) /\ Record("unlisten", l, 0, m)
  /\ UNCHANGED <<quiesced, task>>

\* Kinds whose readyState is OPEN: message events are fired on no other
\* (a released socket is CLOSING from the close() call on).
Receiving(cls) ==
  \/ cls = "ws" /\ ws = RS_OPEN
  \/ cls = "supOpen" /\ detached.supOpen > 0

\* A message arrives on a socket that is OPEN.
OnMessage(cls, data) ==
  /\ task = "idle"
  /\ Receiving(cls)
  /\ LET m == onmessage([Now EXCEPT !.msg = data], data)
     IN  Commit(m) /\ Record("onmessage", Origin(cls), 0, m)
  /\ UNCHANGED <<quiesced, task>>

\* An on(eventType, handler) call by the application.
Subscribe(eventType, handler) ==
  /\ task = "idle"
  /\ Len(subs) < MaxSubscriptions
  /\ LET m == on(Now, eventType, handler)
     IN  Commit(m) /\ Record("on", "none", 0, m)
  /\ UNCHANGED <<quiesced, task>>

\* A call of the unsubscribe function that the i-th on() call returned.
Unsubscribe(i) ==
  /\ task = "idle"
  /\ i \in 1..Len(subs)
  /\ LET m == [unsubscribe(Now, subs[i].type, subs[i].handler) EXCEPT
                 !.subs[i].called = TRUE]
     IN  Commit(m) /\ Record("unsubscribe", "none", i, m)
  /\ UNCHANGED <<quiesced, task>>

\* The readings of the clock an event can happen at.
Times == {t \in clock..(clock + 1) : t <= MaxClock}

\* A processing-status event reaches the provider's handler.
ProcessingStatusEvent(status, t) ==
  /\ task = "idle"
  /\ LET m == onProcessingStatus([Now EXCEPT !.clock = t, !.payload = status],
                                 status, t)
     IN  Commit(m) /\ Record("processing-status", "none", 0, m)
  /\ UNCHANGED <<quiesced, task>>

\* A task-update event reaches the provider's handler.
TaskUpdateEvent(update, t) ==
  /\ task = "idle"
  /\ LET m == onTaskUpdate([Now EXCEPT !.clock = t, !.payload = update], update, t)
     IN  Commit(m) /\ Record("task-update", "none", 0, m)
  /\ UNCHANGED <<quiesced, task>>

\* Every step of the manager and of its sockets and timers, with the
\* tokens that connect() is called with.
Manager(tokens) ==
  \/ \E token \in tokens : Connect(token)
  \/ Disconnect
  \/ ReconnectTimerFires
  \/ LeakedTimerFires
  \/ HeartbeatTick
  \/ WsOpen
  \/ SupersededOpen
  \/ \E cls \in SocketKinds, code \in CloseCodes : SocketClose(cls, code)
  \/ \E cls \in SocketKinds : SocketError(cls)
  \/ SocketErrorClose

Next ==
  \/ Manager(Tokens)
  \/ \E type \in MessageTypes : Send(type)

Spec == Init /\ [][Next]_vars

\* The manager with state-change listeners coming and going.
NextListeners ==
  \/ Manager({""})
  \/ \E l \in Listeners : OnConnectionStateChange(l)
  \/ \E l \in Listeners : OffConnectionStateChange(l)

SpecListeners == Init /\ [][NextListeners]_vars

\* The event bus, on a connection that the application opens.
NextBus ==
  \/ Connect("")
  \/ WsOpen
  \/ \E cls \in SocketKinds, data \in Inbound : OnMessage(cls, data)
  \/ \E eventType \in SubscribedTypes, handler \in Handlers :
        Subscribe(eventType, handler)
  \/ \E i \in 1..MaxSubscriptions : Unsubscribe(i)

SpecBus == Init /\ [][NextBus]_vars

\* The provider's status, folded from the events that reach its handlers.
NextAggregator ==
  \/ \E status \in Snapshots, t \in Times : ProcessingStatusEvent(status, t)
  \/ \E update \in Tasks, t \in Times : TaskUpdateEvent(update, t)

SpecAggregator == Init /\ [][NextAggregator]_vars

\* The event bus on every socket the application's connect() and
\* disconnect() calls leave behind.
NextSockets ==
  \/ Connect("")
  \/ Disconnect
  \/ WsOpen
  \/ SupersededOpen
  \/ \E cls \in SocketKinds, data \in Inbound : OnMessage(cls, data)
  \/ \E eventType \in SubscribedTypes, handler \in Handlers :
        Subscribe(eventType, handler)

SpecSockets == Init /\ [][NextSockets]_vars

TypeOK ==
  /\ connectionState \in ConnectionState
  /\ ws \in ReadyStates
  /\ reconnectAttempts \in 0..(maxReconnectAttempts + 1)
  /\ reconnectTimer \in {"null", "pending", "fired"}
  /\ heartbeatTimer \in {"null", "active"}
  /\ intervals \in 0..1
  /\ authToken \in Tokens
  /\ urlOk \in BOOLEAN
  /\ DetachedCount(detached) <= MaxDetached
  /\ leakedTimers \in 0..MaxLeakedTimers
  /\ task \in {"idle", "ws", "superseded", "released"}
  /\ \A i \in 1..Len(connectionStateHandlers) : connectionStateHandlers[i] \in Listeners
  /\ Len(connectionStateHandlers) <= Cardinality(Listeners)
  /\ heard \in [Listeners -> ConnectionState \cup {"none"}]
  /\ last.pre \in ConnectionState
  /\ \A i \in 1..Len(last.notified) : last.notified[i] \in ConnectionState
  /\ scenario.step \in 0..7
  /\ last.delay \in {0} \cup {BackoffDelay(reconnectInterval, n) :
                                 n \in 1..maxReconnectAttempts}
  /\ DOMAIN eventHandlers \subseteq SubscribedTypes
  /\ \A k \in DOMAIN eventHandlers :
        /\ Len(eventHandlers[k]) \in 1..Cardinality(Handlers)
        /\ \A i \in 1..Len(eventHandlers[k]) : eventHandlers[k][i] \in Handlers
  /\ Len(subs) <= MaxSubscriptions
  /\ \A i \in 1..Len(subs) :
        subs[i] \in [type : SubscribedTypes, handler : Handlers, called : BOOLEAN]
  /\ last.msg \in Inbound \cup {NoMessage}
  /\ last.escaped \in BOOLEAN
  /\ clock \in 1..MaxClock
  /\ lastActivity \in {NoDate} \cup 1..MaxClock
  /\ \/ processingStatus = NullStatus
     \/ /\ [processingStatus EXCEPT !.currentTasks = << >>] \in Snapshots
        /\ \A i \in 1..Len(processingStatus.currentTasks) :
              processingStatus.currentTasks[i] \in Tasks

\* ---------------------------------------------------------------- claims

Superseded == detached.supConnecting + detached.supOpen
Released == detached.relConnecting + detached.relOpen

\* C1: a connect() called while Connecting or Reconnecting spawns no second
\* attempt: no socket created by an earlier connect() is left alive with its
\* callbacks attached once a later connect() has replaced it.
C1_NoSecondAttempt ==
  (last.op = "connect" /\ last.pre \in {CONNECTING, RECONNECTING}) => Superseded = 0

\* C2: after disconnect(), nothing left over from the prior attempt acts on
\* the manager: a callback of the socket that disconnect() released changes
\* neither the connection state nor the attempt counter.
C2_NothingLeftOverFires ==
  last.cls = "released" =>
    (last.notified = << >> /\ reconnectAttempts = last.preAttempts)

\* C3: from the return of disconnect() to the next explicit connect() the
\* state is Disconnected, no reconnect is scheduled and no socket is opened.
C3_QuietAfterDisconnect ==
  quiesced =>
    /\ connectionState = DISCONNECTED
    /\ reconnectTimer # "pending"
    /\ ws \notin {RS_CONNECTING, RS_OPEN}

\* C4: the connection state is Connected if and only if the socket held by
\* the manager is open.
C4_ConnectedIffOpen == (connectionState = CONNECTED) <=> (ws = RS_OPEN)

\* C5: connect() called while the state is Connected changes nothing (state,
\* socket, attempt counter, token, timers) and notifies no listener.
C5_ConnectWhileConnectedIsNoOp ==
  [][(last'.op = "connect" /\ connectionState = CONNECTED) =>
       /\ UNCHANGED <<connectionState, ws, reconnectAttempts, authToken,
                      reconnectTimer, heartbeatTimer, detached, leakedTimers>>
       /\ last'.notified = << >>]_vars

\* C6: when disconnect() returns the state is Disconnected, the attempt
\* counter is 0, no reconnect timeout and no heartbeat interval is pending,
\* and the manager holds no socket.
C6_DisconnectPostcondition ==
  last.op = "disconnect" =>
    /\ connectionState = DISCONNECTED
    /\ reconnectAttempts = 0
    /\ reconnectTimer # "pending"
    /\ leakedTimers = 0
    /\ heartbeatTimer = "null"
    /\ ws = RS_NULL

\* C7: the attempt counter stays within 0..maxReconnectAttempts, and no more
\* than maxReconnectAttempts reconnects are scheduled between two opens (or
\* since the last disconnect()).
C7_AttemptsBounded ==
  /\ reconnectAttempts \in 0..maxReconnectAttempts
  /\ scheduled \in 0..maxReconnectAttempts

\* C7 witness: the policy has refused a further attempt at the limit.
C7_Witness ==
  /\ last.op = "onclose"
  /\ exhausted
  /\ reconnectAttempts = maxReconnectAttempts
  /\ scheduled = maxReconnectAttempts

\* C8 as stated: the counter goes back to 0 exactly when the state reaches
\* Connected, and every increment ends in Reconnecting.
C8_ResetExactlyOnConnected ==
  [][/\ (reconnectAttempts # 0 /\ reconnectAttempts' = 0) =>
          connectionState' = CONNECTED
     /\ (last'.op = "onopen") => reconnectAttempts' = 0
     /\ (reconnectAttempts' > reconnectAttempts) =>
          connectionState' = RECONNECTING]_vars

\* C8 amended: the counter is set to 0 by a socket open (which reaches
\* Connected) and by disconnect(), and by nothing else; it changes otherwise
\* only by an increment of one that ends in Reconnecting.
C8_ResetOnOpenOrDisconnect ==
  [][/\ (reconnectAttempts' # reconnectAttempts) =>
          \/ /\ reconnectAttempts' = 0
             /\ last'.op \in {"onopen", "disconnect"}
          \/ /\ reconnectAttempts' = reconnectAttempts + 1
             /\ connectionState' = RECONNECTING
     /\ (last'.op = "onopen") =>
          (reconnectAttempts' = 0 /\ connectionState' = CONNECTED)
     /\ (last'.op = "disconnect") => reconnectAttempts' = 0]_vars

\* C8 witness: disconnect() has reset a counter that was not 0.
C8_Witness ==
  /\ last.op = "disconnect"
  /\ last.preAttempts > 0
  /\ reconnectAttempts = 0
  /\ connectionState = DISCONNECTED

AbnormalCloseHandled == last.op = "onclose" /\ last.code # NormalClosure

\* C9 as stated: with maxReconnectAttempts = 5, the state after the fifth
\* consecutive abnormal close (no open in between) is Error.
C9_ErrorAfterFiveCloses ==
  (AbnormalCloseHandled /\ abnormalCloses = 5) => connectionState = ERROR

\* C9 amended: the fifth abnormal close in a row (no open and no disconnect()
\* in between) schedules attempt 5 of 5 and leaves the state Reconnecting;
\* the state is Error after the sixth, that is after
\* maxReconnectAttempts + 1 abnormal closes.
C9_ErrorAfterSixCloses ==
  /\ (AbnormalCloseHandled /\ abnormalCloses = maxReconnectAttempts + 1) =>
        connectionState = ERROR
  /\ (AbnormalCloseHandled /\ abnormalCloses = maxReconnectAttempts) =>
        (connectionState = RECONNECTING /\ reconnectAttempts = maxReconnectAttempts)

\* C9 witness: the sixth abnormal close in a row has been handled.
C9_Witness ==
  /\ AbnormalCloseHandled
  /\ abnormalCloses = maxReconnectAttempts + 1
  /\ connectionState = ERROR

\* C10: once the policy has stopped, and until an explicit connect() or
\* disconnect(), the state is Error and no reconnect timeout is pending.
C10_ErrorIsTerminal ==
  exhausted => (connectionState = ERROR /\ reconnectTimer # "pending")

\* C11: connect() called in state Disconnected and followed by the open of
\* its socket makes the listeners observe Connecting, then Connected; a close
\* of that socket with code 1006 next makes them observe Disconnected, then
\* Reconnecting, with the attempt counter at 1; the reconnect timeout firing
\* next makes them observe Connecting.
C11_ScenarioObserved ==
  /\ scenario.step = 2 => scenario.observed = <<CONNECTING, CONNECTED>>
  /\ scenario.step = 3 =>
        /\ scenario.observed =
             <<CONNECTING, CONNECTED, DISCONNECTED, RECONNECTING>>
        /\ connectionState = RECONNECTING
        /\ reconnectAttempts = 1
  /\ scenario.step = 4 =>
        scenario.observed =
          <<CONNECTING, CONNECTED, DISCONNECTED, RECONNECTING, CONNECTING>>

\* C11 witness: the scenario has run to the retry.
C11_Witness ==
  /\ scenario.step = 4
  /\ last.op = "timer"
  /\ connectionState = CONNECTING
  /\ ws = RS_CONNECTING

\* C12: a close of the held socket with code 1000 while the state is
\* Connected leaves the state Disconnected and the heartbeat stopped, does not
\* change the attempt counter and sets no reconnect timeout.
C12_NormalCloseNoRetry ==
  [][(/\ last'.op = "onclose" /\ last'.cls = "ws" /\ last'.code = NormalClosure
      /\ connectionState = CONNECTED) =>
       /\ connectionState' = DISCONNECTED
       /\ heartbeatTimer' = "null"
       /\ UNCHANGED <<reconnectAttempts, reconnectTimer, leakedTimers, scheduled>>]_vars

\* C12 witness: the held socket was closed normally while Connected.
C12_Witness ==
  /\ last.op = "onclose" /\ last.cls = "ws" /\ last.code = NormalClosure
  /\ last.pre = CONNECTED
  /\ connectionState = DISCONNECTED
  /\ ws = RS_CLOSED

ErrorOnHeldSocketWhileConnected ==
  last.op = "onerror" /\ last.cls = "ws" /\ last.pre = CONNECTED

\* C13 as stated: an error event of the held socket while Connected does what
\* a close with a non-normal code does: the listeners observe Disconnected and
\* then the outcome of the policy.
C13_ErrorActsAsAbnormalClose ==
  ErrorOnHeldSocketWhileConnected =>
    last.notified \in {<<DISCONNECTED, RECONNECTING>>, <<DISCONNECTED, ERROR>>}

\* C13 amended: an error event of the held socket while Connected moves the
\* state to Error and evaluates no policy (counter and timeouts unchanged);
\* the close event with code 1006 that follows it in the same task moves the
\* state to Disconnected and evaluates the policy, as every close with a
\* non-normal code does.
C13_ErrorThenCloseRetries ==
  [][/\ (/\ last'.op = "onerror" /\ last'.cls = "ws"
          /\ connectionState = CONNECTED) =>
            /\ connectionState' = ERROR
            /\ last'.notified = <<ERROR>>
            /\ task' = "ws"
            /\ UNCHANGED <<reconnectAttempts, reconnectTimer, leakedTimers,
                           scheduled, heartbeatTimer>>
     /\ ErrorOnHeldSocketWhileConnected =>
            /\ last'.op = "onclose" /\ last'.cls = "ws" /\ last'.code = 1006
            /\ heartbeatTimer' = "null"
            /\ IF reconnectAttempts < maxReconnectAttempts
                 THEN /\ last'.notified = <<DISCONNECTED, RECONNECTING>>
                      /\ reconnectAttempts' = reconnectAttempts + 1
                      /\ reconnectTimer' = "pending"
                 ELSE /\ last'.notified = <<DISCONNECTED, ERROR>>
                      /\ reconnectAttempts' = reconnectAttempts
                      /\ reconnectTimer' = reconnectTimer]_vars

\* C13 witness: the held socket failed while Connected; its close is due.
C13_Witness ==
  /\ ErrorOnHeldSocketWhileConnected
  /\ connectionState = ERROR
  /\ task = "ws"

\* The states the manager went through in the last operation, first to last.
PassedThrough == <<last.pre>> \o last.notified

\* C14: in every operation each change of the connection state calls every
\* registered listener once with the new state, in the order of the changes
\* (so what each registered listener was called with is the sequence of
\* changes), a listener that was called at all was last called with the
\* current state, and nothing is notified that is not a change.
C14_EveryListenerEveryChange ==
  /\ \A l \in Listeners :
        last.delivered[l] =
          IF Has(connectionStateHandlers, l) THEN last.notified ELSE << >>
  /\ \A l \in Listeners :
        (Has(connectionStateHandlers, l) /\ heard[l] # "none") =>
           heard[l] = connectionState
  /\ \A i \in 1..Len(last.notified) : PassedThrough[i] # PassedThrough[i + 1]
  /\ PassedThrough[Len(PassedThrough)] = connectionState

\* C14 witness: an operation made two changes while a listener that throws
\* was registered ahead of one that does not, and both were called for both.
C14_Witness ==
  /\ connectionStateHandlers = <<"l2", "l1">>
  /\ Len(last.notified) = 2
  /\ last.delivered["l1"] = last.notified
  /\ last.delivered["l2"] = last.notified
  /\ heard["l1"] = connectionState

\* C15 (as stated): a send() called while the connection state is not
\* Connected writes nothing to a socket.
C15_SendDroppedUnlessConnected ==
  (last.op = "send" /\ last.pre # CONNECTED) => last.written = << >>

\* C16: while the state is Connected exactly one heartbeat interval is set;
\* a ping is written only in state Connected; a close event and disconnect()
\* leave none set; and there is never more than one.
C16_HeartbeatWhileConnected ==
  /\ connectionState = CONNECTED => (heartbeatTimer = "active" /\ intervals = 1)
  /\ last.op = "ping" => (last.pre = CONNECTED /\ last.written = <<"ping">>)
  /\ last.op = "tick" => last.written = << >>
  /\ last.op \in {"onclose", "disconnect"} =>
        (heartbeatTimer = "null" /\ intervals = 0)
  /\ intervals <= 1

\* C16 witness: a second open found the heartbeat already running, and a
\* ping was then written.
C16_Witness ==
  /\ last.op = "ping"
  /\ connectionState = CONNECTED
  /\ detached.supOpen > 0
  /\ intervals = 1

\* The fields of the manager other than the history of the last operation.
ManagerState ==
  <<connectionState, ws, reconnectAttempts, reconnectTimer, heartbeatTimer,
    intervals, authToken, detached, leakedTimers, connectionStateHandlers,
    eventHandlers>>

\* The handlers registered for an event type, in the order they are called.
HandlersOf(eventType) ==
  IF MapHas(eventHandlers, eventType) THEN eventHandlers[eventType] ELSE << >>

Dispatched(l) ==
  l.op = "onmessage" /\ l.msg.kind = "envelope" /\ l.msg.type # "pong"

\* C17: an inbound message of type pong calls no handler, whatever is
\* registered (handlers registered for pong included), and changes no field
\* of the manager.
C17_PongFiltered ==
  [][(last'.op = "onmessage" /\ last'.msg.type = "pong") =>
       /\ last'.invoked = << >>
       /\ ~last'.escaped
       /\ last'.notified = << >>
       /\ UNCHANGED ManagerState]_vars

\* C17 witness: a pong arrived while a handler was registered for pong.
C17_Witness ==
  /\ last.op = "onmessage"
  /\ last.msg.type = "pong"
  /\ MapHas(eventHandlers, "pong")
  /\ last.invoked = << >>

\* C18: a dispatched message calls every handler registered for its type,
\* those after one that throws included; this holds for every message, so
\* also for the messages after one whose handler threw; and the dispatch,
\* with or without a throw, changes no field of the manager and lets no
\* exception out.
C18_ThrowingHandlerIsolated ==
  [][Dispatched(last') =>
       /\ last'.invoked = HandlersOf(last'.msg.type)
       /\ ~last'.escaped
       /\ last'.notified = << >>
       /\ UNCHANGED ManagerState]_vars

\* C18 witness: a handler threw in the dispatch before, and in this one the
\* handler that throws was called first and the other one after it.
C18_Witness ==
  /\ Dispatched(last)
  /\ last.before = "threw"
  /\ last.invoked = <<"h2", "h1">>
  /\ connectionState = CONNECTED

\* C19: an inbound message that is not JSON, or is JSON but no object with
\* a type, calls no handler, lets no exception out of the callback and
\* changes no field of the manager; and every dispatched message, also one
\* right after such a message, calls the handlers of its type.
C19_UndecodableDropped ==
  [][/\ (last'.op = "onmessage" /\ last'.msg.kind \in NotEnvelopes) =>
          /\ last'.invoked = << >>
          /\ ~last'.escaped
          /\ last'.notified = << >>
          /\ UNCHANGED ManagerState
     /\ (Dispatched(last') /\ last'.before = "dropped") =>
          last'.invoked = HandlersOf(last'.msg.type)]_vars

\* C19 witness: a message was dropped, and the next one reached a handler.
C19_Witness ==
  /\ Dispatched(last)
  /\ last.before = "dropped"
  /\ last.invoked # << >>

\* The map without the handler under the event type.
Without(map, eventType, handler) ==
  IF MapHas(map, eventType)
    THEN IF Delete(map[eventType], handler) = << >>
           THEN MapDelete(map, eventType)
           ELSE MapSet(map, eventType, Delete(map[eventType], handler))
    ELSE map

\* C20 (as stated): the first call of an unsubscribe function removes the
\* pair it was returned for and nothing else, and a later call of the same
\* function changes nothing.
C20_UnsubscribeExactlyThat ==
  [][last'.op = "unsubscribe" =>
       LET sub == subs[last'.code]
       IN  eventHandlers' =
             IF sub.called THEN eventHandlers
             ELSE Without(eventHandlers, sub.type, sub.handler)]_vars

\* The ids of a list of tasks are pairwise different.
UniqueIds(tasks) ==
  \A i, j \in 1..Len(tasks) : tasks[i].id = tasks[j].id => i = j

\* C21: after a processing-status snapshot is folded the status is that
\* snapshot, whatever the status was before; folding the same snapshot again
\* gives the same status.
C21_SnapshotReplaces ==
  [][last'.op = "processing-status" =>
       /\ processingStatus' = last'.payload
       /\ (last.op = "processing-status" /\ last.payload = last'.payload) =>
             processingStatus' = processingStatus]_vars

\* C21 witness: a snapshot without tasks replaced what was there, after the
\* clock had moved on.
C21_Witness ==
  /\ last.op = "processing-status"
  /\ processingStatus = last.payload
  /\ processingStatus.currentTasks = << >>
  /\ processingStatus.queueLength = 2
  /\ clock = MaxClock

\* C22: folding a task-update T into a status P that is not null changes
\* currentTasks only: every task with the id of T is replaced by T where it
\* stands and the length stays, or, if there is none, T is appended at the
\* end; and ids that were pairwise different stay so.
C22_TaskUpdateMerges ==
  [][(last'.op = "task-update" /\ processingStatus # NullStatus) =>
       LET P == processingStatus
           Q == processingStatus'
           T == last'.payload
       IN  /\ Q # NullStatus
           /\ Q.activeAgents = P.activeAgents
           /\ Q.queueLength = P.queueLength
           /\ Q.estimatedCompletion = P.estimatedCompletion
           /\ IF \E i \in 1..Len(P.currentTasks) : P.currentTasks[i].id = T.id
                THEN /\ Len(Q.currentTasks) = Len(P.currentTasks)
                     /\ \A i \in 1..Len(P.currentTasks) :
                          Q.currentTasks[i] =
                            IF P.currentTasks[i].id = T.id THEN T
                            ELSE P.currentTasks[i]
                ELSE Q.currentTasks = Append(P.currentTasks, T)
           /\ UniqueIds(P.currentTasks) => UniqueIds(Q.currentTasks)]_vars

\* C22 witness: the update of task a stands in second place, after task b.
C22_Witness ==
  /\ last.op = "task-update"
  /\ last.payload = [id |-> "a", progress |-> 50]
  /\ processingStatus # NullStatus
  /\ processingStatus.currentTasks =
       <<[id |-> "b", progress |-> 10], [id |-> "a", progress |-> 50]>>

\* C23: a task-update folded while the status is null leaves it null, and
\* the status is null exactly as long as no snapshot was folded.
C23_NoStatusFromDeltas ==
  [][/\ (last'.op = "task-update" /\ processingStatus = NullStatus) =>
          processingStatus' = NullStatus
     /\ (processingStatus = NullStatus /\ processingStatus' # NullStatus) =>
          last'.op = "processing-status"]_vars

\* C23 witness: a second task-update in a row found no status and left none.
C23_Witness ==
  /\ last.op = "task-update"
  /\ processingStatus = NullStatus
  /\ clock = MaxClock

\* C24 (as stated): a task-update that is dropped because the status is null
\* leaves lastActivity as it was.
C24_DroppedUpdateKeepsLastActivity ==
  [][(last'.op = "task-update" /\ processingStatus = NullStatus) =>
       lastActivity' = lastActivity]_vars

\* C25: when new WebSocket throws inside connect() (called by the
\* application or by the reconnect timeout), the listeners observe Connecting
\* and Error, and the policy is evaluated in the same call: with attempts
\* remaining the counter goes up by one, the state ends Reconnecting and
\* exactly one reconnect timeout is pending; with none remaining the state
\* ends Error, the counter is as before and no timeout is pending.
C25_ThrowInConnect ==
  (last.op \in {"connect", "timer"} /\ ~urlOk) =>
    IF last.preAttempts < maxReconnectAttempts
      THEN /\ last.notified = <<CONNECTING, ERROR, RECONNECTING>>
           /\ connectionState = RECONNECTING
           /\ reconnectAttempts = last.preAttempts + 1
           /\ reconnectTimer = "pending" /\ leakedTimers = 0
      ELSE /\ last.notified = <<CONNECTING, ERROR>>
           /\ connectionState = ERROR
           /\ reconnectAttempts = last.preAttempts
           /\ reconnectTimer # "pending" /\ leakedTimers = 0

\* C25 witness: the timeout of the last attempt called connect(), which
\* threw with no attempts remaining.
C25_Witness ==
  /\ last.op = "timer"
  /\ ~urlOk
  /\ last.preAttempts = maxReconnectAttempts
  /\ connectionState = ERROR
  /\ reconnectTimer = "null"

C29_CounterChangedByThreeEvents ==
  [][/\ (reconnectAttempts' # reconnectAttempts) =>
          \/ reconnectAttempts' = 0 /\ last'.op \in {"onopen", "disconnect"}
          \/ /\ reconnectAttempts' = reconnectAttempts + 1
             /\ reconnectAttempts < maxReconnectAttempts
             /\ last'.delay # 0
     /\ last'.op \in {"onopen", "disconnect"} => reconnectAttempts' = 0
     /\ last'.delay # 0 => reconnectAttempts' = reconnectAttempts + 1
     /\ (last'.op = "connect" /\ last'.delay = 0) =>
          reconnectAttempts' = reconnectAttempts
     /\ scenario'.step = 7 =>
          /\ connectionState' = ERROR
          /\ last'.delay = 0
          /\ UNCHANGED <<reconnectAttempts, reconnectTimer, leakedTimers>>]_vars

\* C29 witness: connect() was called after the policy stopped, and the new
\* socket failed.
C29_Witness ==
  /\ scenario.step = 7
  /\ connectionState = ERROR
  /\ reconnectAttempts = maxReconnectAttempts
  /\ reconnectTimer # "pending"

\* C27: a dispatched message whose type has no handlers calls none, lets no
\* exception out, and leaves the map of handlers, the connection state and
\* every other field of the manager as they were.
C27_NoSubscriberNoEffect ==
  [][(Dispatched(last') /\ ~MapHas(eventHandlers, last'.msg.type)) =>
       /\ last'.invoked = << >>
       /\ ~last'.escaped
       /\ last'.notified = << >>
       /\ eventHandlers' = eventHandlers
       /\ UNCHANGED ManagerState]_vars

\* C27 witness: a message was dispatched for which nothing was registered,
\* while something was registered for the other type.
C27_Witness ==
  /\ Dispatched(last)
  /\ last.msg.type = "task-update"
  /\ DOMAIN eventHandlers = {"processing-status"}
  /\ last.invoked = << >>

\* C28 (as stated): a handler is called only for a message of the socket the
\* manager holds, and for none between the return of disconnect() and the
\* next connect().
C28_OnlyHeldSocketDelivers ==
  (last.op = "onmessage" /\ last.invoked # << >>) =>
     (last.cls = "ws" /\ ~quiesced)

\* C30: a handler registered twice for one event type is in the set once:
\* it is called once for a dispatched message, and a call of either
\* unsubscribe function leaves it registered no more, whether or not the
\* other one was called.
C30_TwiceRegisteredIsOne ==
  [][/\ \A k \in DOMAIN eventHandlers' : \A i, j \in 1..Len(eventHandlers'[k]) :
          eventHandlers'[k][i] = eventHandlers'[k][j] => i = j
     /\ Dispatched(last') =>
          /\ last'.invoked = HandlersOf(last'.msg.type)
          /\ \A i, j \in 1..Len(last'.invoked) :
                last'.invoked[i] = last'.invoked[j] => i = j
     /\ last'.op = "unsubscribe" =>
          LET sub == subs[last'.code]
          IN  ~ (/\ MapHas(eventHandlers', sub.type)
                 /\ Has(eventHandlers'[sub.type], sub.handler))]_vars

\* C30 witness: of two registrations of one handler for one type, the
\* unsubscribe function of one was called, and the handler is gone.
C30_Witness ==
  /\ last.op = "unsubscribe"
  /\ Len(subs) = 2
  /\ subs[1].type = subs[2].type /\ subs[1].handler = subs[2].handler
  /\ subs[1].called # subs[2].called
  /\ ~MapHas(eventHandlers, subs[1].type)
====
